---- MODULE Spec2Model ----
(***************************************************************************)
(* Model of src/vs/workbench/browser/parts/editor/editorPicker.ts:         *)
(* EditorPickerEntry, BaseEditorPicker.getResults / onClose, and the       *)
(* getAutoFocus policies of ActiveEditorGroupPicker and AllEditorsPicker.  *)
(* The editor-group service, the fuzzy scorer and the QuickOpenHandler     *)
(* base class are collaborators that live outside this file.               *)
(***************************************************************************)
EXTENDS Integers, Sequences, FiniteSets, TLC

\* ---- bounds ----
MaxGroups == 2        \* groups in the workbench
MaxKeybindings == 1   \* keybindings of a quick-navigate configuration

\* ---- inputs ----
Labels == {<<"f">>, <<"b">>, <<"F", "b">>}          \* names of the editors that can be open
SearchValues == {<<>>, <<" ">>, <<" ", "F">>}       \* raw search strings
Pickers == {"active", "all"}
Modes == {"OPEN", "PREVIEW"}
Outcomes == {"resolved", "rejected"}

NoGroup == 0          \* `undefined` for a group reference
NoLabel == <<>>       \* `undefined` for a group label

VARIABLES
    created,      \* editorGroupService.getGroups(GroupsOrder.CREATION_TIME)
    groups,       \* editorGroupService.groups (grid order)
    activeGroup,  \* editorGroupService.activeGroup
    editors,      \* group.editors, per group (sequential order)
    mru,          \* group.getEditors(MOST_RECENTLY_ACTIVE), per group
    scorerCache,  \* BaseEditorPicker.scorerCache
    model,        \* the QuickOpenModel last returned by getResults
    lastQuery,    \* the arguments of the last getResults and what it looked up
    lastOp,       \* the operation that produced the current state
    computed,     \* cache keys scored (cache misses) since the last onClose
    stale,        \* cache keys that were cached when some onClose ran
    focus,        \* the last getAutoFocus call and its IAutoFocus
    ran           \* the last EditorPickerEntry.run call on the model and its return value

vars == <<created, groups, activeGroup, editors, mru, scorerCache, model,
          lastQuery, lastOp, computed, stale, focus, ran>>

workbench == <<created, groups, activeGroup, editors, mru>>

\* ---- helpers ----
Range(s) == {s[i] : i \in DOMAIN s}

Reverse(s) == [i \in 1..Len(s) |-> s[Len(s) + 1 - i]]

\* Array.prototype.indexOf: zero-based position, -1 when absent
indexOf(s, x) ==
    IF x \in Range(s) THEN (CHOOSE i \in DOMAIN s : s[i] = x /\ \A j \in 1..(i - 1) : s[j] # x) - 1
    ELSE -1

RECURSIVE Flatten(_)
Flatten(ss) == IF ss = <<>> THEN <<>> ELSE Head(ss) \o Flatten(Tail(ss))

\* ---- the workbench (editor-group service) ----
DistinctSeqs ==
    {s \in UNION {[1..k -> Labels] : k \in 0..Cardinality(Labels)} :
        \A i, j \in DOMAIN s : i # j => s[i] # s[j]}

Perms(S) ==
    {s \in [1..Cardinality(S) -> S] : \A i, j \in DOMAIN s : i # j => s[i] # s[j]}

count == Len(groups)

label(g) == <<"G", g>>

\* ---- EditorPickerEntry ----
EditorPickerEntry(editor, group) ==
    [editor |-> editor, group |-> group, highlighted |-> FALSE, labelMatch |-> <<>>,
     groupLabel |-> NoLabel, showBorder |-> FALSE]

setHighlights(e, labelMatch) == [e EXCEPT !.highlighted = TRUE, !.labelMatch = labelMatch]

setGroupLabel(e, l) == [e EXCEPT !.groupLabel = l]

setShowBorder(e, b) == [e EXCEPT !.showBorder = b]

\* ---- the fuzzy scorer (quickOpenScorer) ----
IsSpace(c) == c = " "

Lower(c) == CASE c = "F" -> "f" [] c = "B" -> "b" [] OTHER -> c

Ord(c) == CASE c = "b" -> 1 [] c = "f" -> 2 [] OTHER -> 0

RECURSIVE TrimLeft(_)
TrimLeft(s) == IF s # <<>> /\ IsSpace(Head(s)) THEN TrimLeft(Tail(s)) ELSE s

Trim(s) == Reverse(TrimLeft(Reverse(TrimLeft(s))))

prepareQuery(searchValue) ==
    LET t == Trim(searchValue) IN
    [original |-> searchValue, value |-> [i \in 1..Len(t) |-> Lower(t[i])]]

\* leftmost positions of the query's characters in the label, <<>> when the
\* query is not a subsequence of the label
RECURSIVE MatchFrom(_, _, _, _, _)
MatchFrom(lbl, q, i, j, acc) ==
    IF j > Len(q) THEN acc
    ELSE IF i > Len(lbl) THEN <<>>
    ELSE IF Lower(lbl[i]) = q[j] THEN MatchFrom(lbl, q, i + 1, j + 1, Append(acc, i))
    ELSE MatchFrom(lbl, q, i + 1, j, acc)

doScoreItem(lbl, query) ==
    LET m == IF query.value = <<>> THEN <<>> ELSE MatchFrom(lbl, query.value, 1, 1, <<>>) IN
    IF m = <<>> THEN [score |-> 0, labelMatch |-> <<>>]
    ELSE [score |-> Len(m)
                    + (IF m[1] = 1 THEN 8 ELSE 0)
                    + (IF Len(lbl) = Len(query.value) THEN 16 ELSE 0),
          labelMatch |-> m]

CacheKey(e, query) == <<e.editor, query.value>>

EmptyCache == [k \in {} |-> [score |-> 0, labelMatch |-> <<>>]]

scoreItem(e, query, cache) ==
    LET k == CacheKey(e, query) IN
    IF k \in DOMAIN cache
    THEN [itemScore |-> cache[k], cache |-> cache, miss |-> {}]
    ELSE LET s == doScoreItem(e.editor, query) IN
         [itemScore |-> s, cache |-> cache @@ (k :> s), miss |-> {k}]

RECURSIVE LexCompare(_, _)
LexCompare(a, b) ==
    IF a = <<>> /\ b = <<>> THEN 0
    ELSE IF a = <<>> THEN -1
    ELSE IF b = <<>> THEN 1
    ELSE IF Ord(Lower(Head(a))) # Ord(Lower(Head(b)))
         THEN Ord(Lower(Head(a))) - Ord(Lower(Head(b)))
    ELSE LexCompare(Tail(a), Tail(b))

compareItemsByScore(e1, e2, query, cache) ==
    LET s1 == scoreItem(e1, query, cache).itemScore.score
        s2 == scoreItem(e2, query, cache).itemScore.score
    IN IF s1 > s2 THEN -1
       ELSE IF s1 < s2 THEN 1
       ELSE IF Len(e1.editor) # Len(e2.editor) THEN Len(e1.editor) - Len(e2.editor)
       ELSE LexCompare(e1.editor, e2.editor)

\* ---- BaseEditorPicker.getResults ----
ActiveEditorGroupPicker_getEditorEntries ==
    [i \in 1..Len(mru[activeGroup]) |-> EditorPickerEntry(mru[activeGroup][i], activeGroup)]

AllEditorsPicker_getEditorEntries ==
    Flatten([i \in 1..Len(groups) |->
        [j \in 1..Len(editors[groups[i]]) |->
            EditorPickerEntry(editors[groups[i]][j], groups[i])]])

getEditorEntries(picker) ==
    IF picker = "active" THEN ActiveEditorGroupPicker_getEditorEntries
    ELSE AllEditorsPicker_getEditorEntries

\* one scoreItem call on the running state st of a getResults call
scoreInto(st, e, query) ==
    LET r == scoreItem(e, query, st.cache) IN
    [st EXCEPT !.cache = r.cache,
               !.lookups = @ \cup {CacheKey(e, query)},
               !.misses = @ \cup r.miss]

keepEntryAlways(itemScore) == TRUE

keepEntry(itemScore) == itemScore.score # 0

RECURSIVE filterFrom(_, _, _, _)
filterFrom(editorEntries, i, query, st) ==
    IF i > Len(editorEntries) THEN st
    ELSE LET e == editorEntries[i] IN
         IF query.value = <<>>
         THEN filterFrom(editorEntries, i + 1, query, [st EXCEPT !.entries = Append(@, e)])
         ELSE LET itemScore == scoreItem(e, query, st.cache).itemScore
                  st1 == scoreInto(st, e, query)
              IN IF ~keepEntry(itemScore)
                 THEN filterFrom(editorEntries, i + 1, query, st1)
                 ELSE filterFrom(editorEntries, i + 1, query,
                          [st1 EXCEPT !.entries =
                              Append(@, setHighlights(e, itemScore.labelMatch))])

compareEntriesGridOrder(e1, e2, query, cache) ==
    IF e1.group # e2.group
    THEN indexOf(groups, e1.group) - indexOf(groups, e2.group)
    ELSE compareItemsByScore(e1, e2, query, cache)

compareEntries(e1, e2, query, cache) ==
    IF e1.group # e2.group
    THEN indexOf(created, e1.group) - indexOf(created, e2.group)
    ELSE compareItemsByScore(e1, e2, query, cache)

\* Array.prototype.sort on a short array: insertion sort
RECURSIVE insertSorted(_, _, _, _)
insertSorted(sorted, e, query, cache) ==
    IF sorted = <<>> THEN <<e>>
    ELSE IF compareEntries(sorted[Len(sorted)], e, query, cache) > 0
         THEN Append(insertSorted(SubSeq(sorted, 1, Len(sorted) - 1), e, query, cache),
                     sorted[Len(sorted)])
         ELSE Append(sorted, e)

RECURSIVE sortFrom(_, _, _, _, _)
sortFrom(entries, i, sorted, query, cache) ==
    IF i > Len(entries) THEN sorted
    ELSE sortFrom(entries, i + 1, insertSorted(sorted, entries[i], query, cache), query, cache)

\* the entries the comparator scores: those sharing their group with another
RECURSIVE scoreCompared(_, _, _, _)
scoreCompared(entries, i, query, st) ==
    IF i > Len(entries) THEN st
    ELSE IF \E j \in DOMAIN entries : j # i /\ entries[j].group = entries[i].group
         THEN scoreCompared(entries, i + 1, query, scoreInto(st, entries[i], query))
         ELSE scoreCompared(entries, i + 1, query, st)

sortAlways(st, query) ==
    LET st1 == scoreCompared(st.entries, 1, query, st) IN
    [st1 EXCEPT !.entries = sortFrom(st.entries, 1, <<>>, query, st.cache)]

sortEntries(st, query) ==
    IF query.value # <<>>
    THEN LET st1 == scoreCompared(st.entries, 1, query, st) IN
         [st1 EXCEPT !.entries = sortFrom(st.entries, 1, <<>>, query, st.cache)]
    ELSE st

needsGroupingSurvivors(entries) == Cardinality({entries[i].group : i \in DOMAIN entries}) > 1

needsGrouping(entries) == count > 1

startsGroupAfterFirst(lastGroup, e) == lastGroup # NoGroup /\ lastGroup # e.group

startsGroup(lastGroup, e) == lastGroup = NoGroup \/ lastGroup # e.group

borderAlways(lastGroup) == TRUE

borderFor(lastGroup) == lastGroup # NoGroup

RECURSIVE groupFrom(_, _, _)
groupFrom(entries, i, lastGroup) ==
    IF i > Len(entries) THEN entries
    ELSE LET e == entries[i] IN
         IF startsGroup(lastGroup, e)
         THEN groupFrom([entries EXCEPT ![i] =
                            setShowBorder(setGroupLabel(e, label(e.group)), borderFor(lastGroup))],
                        i + 1, e.group)
         ELSE groupFrom(entries, i + 1, lastGroup)

groupEntries(entries) ==
    IF needsGrouping(entries) THEN groupFrom(entries, 1, NoGroup) ELSE entries

Null == [null |-> TRUE, entries |-> <<>>]

QuickOpenModel(entries) == [null |-> FALSE, entries |-> entries]

getResults(picker, searchValue, cache) ==
    LET editorEntries == getEditorEntries(picker)
        st0 == [entries |-> <<>>, cache |-> cache, lookups |-> {}, misses |-> {}]
    IN IF Len(editorEntries) = 0
       THEN [model |-> Null, cache |-> cache, lookups |-> {}, misses |-> {}]
       ELSE LET query == prepareQuery(searchValue)
                filtered == filterFrom(editorEntries, 1, query, st0)
                sorted == sortEntries(filtered, query)
            IN [model |-> QuickOpenModel(groupEntries(sorted.entries)),
                cache |-> sorted.cache, lookups |-> sorted.lookups, misses |-> sorted.misses]

\* ---- state machine ----
NoQuery == [picker |-> "none", searchValue |-> <<>>, lookups |-> {}, misses |-> {}]

NoContext == [present |-> FALSE, keybindings |-> <<>>]

NoAutoFocus == [autoFocusFirstEntry |-> FALSE, autoFocusSecondEntry |-> FALSE,
                autoFocusLastEntry |-> FALSE]

NoFocus == [picker |-> "none", searchValue |-> <<>>, context |-> NoContext, ret |-> NoAutoFocus]

NoRun == [index |-> 0, mode |-> "none", outcome |-> "none", ret |-> FALSE, requested |-> <<>>]

Init ==
    /\ \E n \in 1..MaxGroups :
         /\ created = [i \in 1..n |-> i]
         /\ groups \in Perms(1..n)
         /\ activeGroup \in 1..n
         \* every editor is open in at most one group
         /\ editors \in {f \in [1..n -> DistinctSeqs] :
                            \A g, h \in 1..n : g # h => Range(f[g]) \cap Range(f[h]) = {}}
         /\ mru = [g \in 1..n |-> Reverse(editors[g])]
    /\ scorerCache = EmptyCache
    /\ model = Null
    /\ lastQuery = NoQuery
    /\ lastOp = "init"
    /\ computed = {}
    /\ stale = {}
    /\ focus = NoFocus
    /\ ran = NoRun

Query ==
    \E picker \in Pickers, searchValue \in SearchValues :
        \E r \in {getResults(picker, searchValue, scorerCache)} :
        /\ model' = r.model
        /\ scorerCache' = r.cache
        /\ lastQuery' = [picker |-> picker, searchValue |-> searchValue,
                         lookups |-> r.lookups, misses |-> r.misses]
        /\ lastOp' = "query"
        /\ computed' = computed \cup r.misses
        /\ stale' = stale
        /\ focus' = NoFocus
        /\ ran' = NoRun
        /\ UNCHANGED workbench

onCloseKeepCache(canceled, cache) == cache

onClose(canceled, cache) == EmptyCache

OnClose ==
    \E canceled \in BOOLEAN :
        /\ scorerCache' = onClose(canceled, scorerCache)
        /\ lastOp' = "close"
        /\ computed' = {}
        /\ stale' = stale \cup DOMAIN scorerCache
        /\ UNCHANGED <<workbench, model, lastQuery, focus, ran>>

Next == Query \/ OnClose

Spec == Init /\ [][Next]_vars

\* ---- getAutoFocus ----
Keybindings == [shiftKey : BOOLEAN, chordPart : BOOLEAN]

Contexts ==
    {NoContext} \cup
    {[present |-> TRUE, keybindings |-> ks] :
        ks \in UNION {[1..k -> Keybindings] : k \in 0..MaxKeybindings}}

FocusFirst == [NoAutoFocus EXCEPT !.autoFocusFirstEntry = TRUE]

FocusSecond == [NoAutoFocus EXCEPT !.autoFocusSecondEntry = TRUE]

FocusLast == [NoAutoFocus EXCEPT !.autoFocusLastEntry = TRUE]

isShiftNavigate(context) ==
    /\ context.present
    /\ \E i \in DOMAIN context.keybindings :
          LET k == context.keybindings[i] IN
          IF k.chordPart THEN FALSE ELSE k.shiftKey

QuickOpenHandler_getAutoFocus(searchValue, context) == NoAutoFocus

ActiveEditorGroupPicker_getAutoFocusByCount(searchValue, context) ==
    IF searchValue # <<>>
    THEN FocusFirst
    ELSE IF isShiftNavigate(context)
    THEN FocusLast
    ELSE [NoAutoFocus EXCEPT !.autoFocusFirstEntry = (Len(editors[activeGroup]) = 1),
                             !.autoFocusSecondEntry = (Len(editors[activeGroup]) > 1)]

ActiveEditorGroupPicker_getAutoFocus(searchValue, context) ==
    IF searchValue # <<>> \/ ~context.present
    THEN FocusFirst
    ELSE IF isShiftNavigate(context)
    THEN FocusLast
    ELSE [NoAutoFocus EXCEPT !.autoFocusFirstEntry = (Len(editors[activeGroup]) = 1),
                             !.autoFocusSecondEntry = (Len(editors[activeGroup]) > 1)]

AllEditorsPicker_getAutoFocusNoSearchCheck(searchValue, context) ==
    QuickOpenHandler_getAutoFocus(searchValue, context)

AllEditorsPicker_getAutoFocus(searchValue, context) ==
    IF searchValue # <<>>
    THEN FocusFirst
    ELSE QuickOpenHandler_getAutoFocus(searchValue, context)

\* getAutoFocus reads its arguments and the active group only; a behaviour
\* records the instruction of one call
ActiveGetAutoFocus ==
    \E searchValue \in SearchValues, context \in Contexts :
        /\ focus = NoFocus
        /\ focus' = [picker |-> "active", searchValue |-> searchValue, context |-> context,
                     ret |-> ActiveEditorGroupPicker_getAutoFocus(searchValue, context)]
        /\ lastOp' = "focus"
        /\ UNCHANGED <<workbench, scorerCache, model, lastQuery, computed, stale, ran>>

AllGetAutoFocus ==
    \E searchValue \in SearchValues, context \in Contexts :
        /\ focus = NoFocus
        /\ focus' = [picker |-> "all", searchValue |-> searchValue, context |-> context,
                     ret |-> AllEditorsPicker_getAutoFocus(searchValue, context)]
        /\ lastOp' = "focus"
        /\ UNCHANGED <<workbench, scorerCache, model, lastQuery, computed, stale, ran>>

NextFocus == ActiveGetAutoFocus \/ AllGetAutoFocus

SpecFocus == Init /\ [][NextFocus]_vars

\* ---- EditorPickerEntry.run ----
QuickOpenEntry_run(mode) == FALSE

runOpenReportsOutcome(outcome) == outcome = "resolved"

runOpen(outcome) == TRUE

run(mode, outcome) == IF mode = "OPEN" THEN runOpen(outcome) ELSE QuickOpenEntry_run(mode)

Run ==
    \E i \in DOMAIN model.entries, mode \in Modes, outcome \in Outcomes :
        LET e == model.entries[i] IN
        /\ ran' = [index |-> i, mode |-> mode, outcome |-> outcome, ret |-> run(mode, outcome),
                   requested |-> IF mode = "OPEN" THEN <<e.group, e.editor>> ELSE <<>>]
        /\ lastOp' = "run"
        /\ UNCHANGED <<workbench, scorerCache, model, lastQuery, computed, stale, focus>>

NextRun == Query \/ Run

SpecRun == Init /\ [][NextRun]_vars

\* ======================= properties =======================
HasResult == ~model.null

LastQueryValue == prepareQuery(lastQuery.searchValue).value

Candidates == getEditorEntries(lastQuery.picker)

Identity(entries) == [i \in DOMAIN entries |-> <<entries[i].editor, entries[i].group>>]

ResultGroups == {model.entries[i].group : i \in DOMAIN model.entries}

Annotated(e) == e.groupLabel # NoLabel \/ e.showBorder

\* C1: for a non-empty (normalized) query every entry of the result has a
\* nonzero fuzzy score against the query; no zero-score candidate is in it.
C1_NonZeroScores ==
    (HasResult /\ LastQueryValue # <<>>) =>
        \A i \in DOMAIN model.entries :
            doScoreItem(model.entries[i].editor, prepareQuery(lastQuery.searchValue)).score # 0

\* a non-empty query that kept one candidate and dropped another
C1_Witness ==
    /\ HasResult /\ LastQueryValue # <<>>
    /\ Len(model.entries) >= 1
    /\ Len(model.entries) < Len(Candidates)

\* C2: for an empty or whitespace-only query the result is exactly the
\* candidates in the order the entry provider returned them, none highlighted.
C2_EmptyQueryKeepsAll ==
    (HasResult /\ LastQueryValue = <<>>) =>
        /\ Identity(model.entries) = Identity(Candidates)
        /\ \A i \in DOMAIN model.entries :
              ~model.entries[i].highlighted /\ model.entries[i].labelMatch = <<>>

\* a whitespace-only query over three candidates whose provider order is not
\* the order a sort would give
C2_Witness ==
    /\ HasResult /\ lastQuery.searchValue = <<" ">>
    /\ Len(model.entries) = 3
    /\ model.entries[1].editor = <<"F", "b">>
    /\ Identity(model.entries) = Identity(Candidates)

\* C3: for a non-empty query the entries of the result are ordered by the
\* creation rank of their group, so each group is contiguous and the groups
\* ascend in getGroups(CREATION_TIME) order, whatever the provider's order.
C3_GroupsInCreationOrder ==
    (HasResult /\ LastQueryValue # <<>>) =>
        \A i, j \in DOMAIN model.entries :
            i < j => indexOf(created, model.entries[i].group)
                        <= indexOf(created, model.entries[j].group)

\* a non-empty query whose result spans two groups that the provider
\* enumerated youngest first
C3_Witness ==
    /\ HasResult /\ LastQueryValue # <<>>
    /\ lastQuery.picker = "all"
    /\ Cardinality(ResultGroups) >= 2
    /\ Candidates[1].group # created[1]
    /\ model.entries[1].group = created[1]

\* C4: the first entry never has a border; an entry whose predecessor is of
\* another group has a border and a non-empty group label; an entry that
\* continues its predecessor's group has neither.
C4_BorderRule ==
    HasResult =>
        /\ model.entries # <<>> => ~model.entries[1].showBorder
        /\ \A i \in DOMAIN model.entries :
              i > 1 =>
                IF model.entries[i].group # model.entries[i - 1].group
                THEN model.entries[i].showBorder /\ model.entries[i].groupLabel # NoLabel
                ELSE ~model.entries[i].showBorder /\ model.entries[i].groupLabel = NoLabel

\* a result with an entry that starts a second group and one that continues a group
C4_Witness ==
    /\ HasResult
    /\ \E i, j \in DOMAIN model.entries :
          /\ i > 1 /\ model.entries[i].group # model.entries[i - 1].group
          /\ j > 1 /\ model.entries[j].group = model.entries[j - 1].group

\* the scenario of C5: A = "f" and B = "b" in group 1, C = "Fb" in group 2,
\* the all-groups picker, a query that normalizes to "f"
C5_Scenario ==
    /\ HasResult /\ lastQuery.picker = "all" /\ LastQueryValue = <<"f">>
    /\ created = <<1, 2>>
    /\ Len(editors[1]) = 2 /\ Range(editors[1]) = {<<"f">>, <<"b">>}
    /\ editors[2] = << <<"F", "b">> >>

\* C5 as stated: the result is [A, C], C has its group label set and A has none.
C5_Original ==
    C5_Scenario =>
        /\ Identity(model.entries) = << <<(<<"f">>), 1>>, <<(<<"F", "b">>), 2>> >>
        /\ model.entries[2].groupLabel # NoLabel
        /\ model.entries[1].groupLabel = NoLabel

\* C5 amended: the result is [A, C]; C has its group label and a border, and A,
\* the first entry of the result, has its group label too, without a border.
C5_Amended ==
    C5_Scenario =>
        /\ Identity(model.entries) = << <<(<<"f">>), 1>>, <<(<<"F", "b">>), 2>> >>
        /\ model.entries[2].groupLabel = label(2) /\ model.entries[2].showBorder
        /\ model.entries[1].groupLabel = label(1) /\ ~model.entries[1].showBorder

\* the scenario with the provider enumerating group 2 first
C5_Witness == C5_Scenario /\ groups = <<2, 1>>

\* C6 as stated: an entry is annotated only when the surviving entries belong
\* to more than one distinct group.
C6_Original ==
    (HasResult /\ \E i \in DOMAIN model.entries : Annotated(model.entries[i])) =>
        Cardinality(ResultGroups) > 1

\* C6 amended: some entry is annotated exactly when the workbench has more
\* than one group and the result is not empty; then the first entry carries
\* its group's label. With one group in the workbench nothing is annotated.
C6_Amended ==
    HasResult =>
        /\ (\E i \in DOMAIN model.entries : Annotated(model.entries[i]))
              <=> (count > 1 /\ model.entries # <<>>)
        /\ (count > 1 /\ model.entries # <<>>) =>
              model.entries[1].groupLabel = label(model.entries[1].group)

\* the single-group picker in a workbench of two groups: one group among the
\* results, and its first entry labelled
C6_Witness ==
    /\ HasResult /\ lastQuery.picker = "active"
    /\ count > 1
    /\ Len(model.entries) >= 2
    /\ Cardinality(ResultGroups) = 1
    /\ model.entries[1].groupLabel # NoLabel

C7_Case ==
    /\ focus.picker = "active"
    /\ focus.searchValue = <<>>
    /\ ~focus.context.present

\* C7 as stated: focus first with 1 candidate, focus second with 3 candidates.
C7_Original ==
    C7_Case =>
        /\ Len(editors[activeGroup]) = 1 => focus.ret = FocusFirst
        /\ Len(editors[activeGroup]) = 3 => focus.ret = FocusSecond

\* C7 amended: without a quick-navigate context the single-group picker
\* focuses the first entry, with 1 candidate and with 3 candidates alike.
C7_Amended ==
    C7_Case =>
        /\ Len(editors[activeGroup]) = 1 => focus.ret = FocusFirst
        /\ Len(editors[activeGroup]) = 3 => focus.ret = FocusFirst

\* the case with three candidates in the active group
C7_Witness == C7_Case /\ Len(editors[activeGroup]) = 3 /\ focus.ret = FocusFirst

C9_CacheClearedOnClose ==
    /\ [](lastOp = "close" => scorerCache = EmptyCache)
    /\ [](DOMAIN scorerCache \subseteq computed)
    /\ [][(lastOp = "close" /\ lastOp' = "query") =>
            (lastQuery'.misses = lastQuery'.lookups /\ DOMAIN scorerCache' = lastQuery'.lookups)]_vars

\* a query that looked up keys cached in an earlier session and missed them all
C9_Witness ==
    /\ lastOp = "query"
    /\ lastQuery.lookups # {}
    /\ lastQuery.lookups \subseteq stale
    /\ lastQuery.misses = lastQuery.lookups

RanEntry == model.entries[ran.index]

\* C10 as stated: run in OPEN mode returns the success or failure of the
\* group's openEditor.
C10_Original ==
    ran.mode = "OPEN" => (ran.ret <=> ran.outcome = "resolved")

\* C10 amended: run in OPEN mode asks the owning group to open the entry's
\* editor and returns true whether that request succeeds or fails; the
\* returned result list is left unchanged.
C10_Amended ==
    /\ [](ran.mode = "OPEN" =>
            /\ ran.ret = TRUE
            /\ ran.requested = <<RanEntry.group, RanEntry.editor>>)
    /\ [][lastOp' = "run" => model' = model]_vars

\* a run in OPEN mode whose openEditor request failed
C10_Witness ==
    /\ lastOp = "run" /\ ran.mode = "OPEN" /\ ran.outcome = "rejected"
    /\ ran.ret = TRUE

====
